---- MODULE Spec2Model ----
(***************************************************************************)
(* FileKitty session history and staleness detection.                      *)
(*                                                                         *)
(* State machine of filekitty.core.history_manager.HistoryManager together *)
(* with the navigation, polling and timer code of ui.main_window.FilePicker*)
(* that drives it.  The file system (tracked source files and the snapshot *)
(* files of the history directories) is part of the state; the environment *)
(* edits tracked files and damages snapshot files.                         *)
(***************************************************************************)
EXTENDS Integers, Sequences, FiniteSets, TLC

\* ------------------------------------------------------------------ bounds
MaxStates == 3          \* number of snapshot ids (uuid4 values) that may be issued
MaxTrackedStates == 2   \* the same while tracked files are being edited (SpecStale)
MaxFaults == 1          \* number of I/O faults: a failed write or os.remove of the
                        \* program, or a snapshot file damaged behind its back
MaxForeignFiles == 2    \* number of files other than snapshots put into the
                        \* history directories (SpecPurge)
MaxGuardedStates == 2   \* number of snapshot ids while snapshots break and a tracked
                        \* file is edited during navigation (SpecGuard)
MaxDisplayedStates == 1 \* number of snapshot ids while the stale indicator is
                        \* watched (SpecDisplay)
MaxHashedStates == 2    \* number of snapshot ids while files change under the
                        \* hashing (SpecHash)

\* --------------------------------------------------------------- constants
HASH_ERROR_SENTINEL == "HASH_ERROR"
HASH_MISSING_SENTINEL == "FILE_MISSING"
HISTORY_DIR_NAME == "FileKittyHistory"

\* ------------------------------------------------------------- file system
\* Tracked paths and what a path can hold: nothing, one of two UTF-8 texts,
\* bytes with a NUL in the first chunk, or a file that cannot be opened.
\* "f1" is a source file that other programs edit; "f2" is a binary asset.
Paths == {"f1", "f2"}
Contents == {"absent", "v1", "v2", "bin", "noperm"}
EditedPaths == {"f1"}
EditContents == {"absent", "v1", "v2", "noperm"}

\* The two places a history directory can live: under the platform temp
\* location or under the user-defined base path.
TempBase == "tmp"
UserBase == "user"
HistoryPath(base) == << base, HISTORY_DIR_NAME >>
NoDir == << >>
Dirs == { HistoryPath(TempBase), HistoryPath(UserBase) }

\* sha256 hex digest of a readable file's bytes
Digest(c) == CASE c = "v1" -> "sha256_v1"
               [] c = "v2" -> "sha256_v2"
               [] c = "bin" -> "sha256_bin"

is_text_file(d, p) == d[p] \in {"v1", "v2"}

\* A hasher that only catches FileNotFoundError: any other failure leaves
\* it as an exception
calculate_file_hash_raising(d, p) ==
    CASE d[p] = "absent" -> HASH_MISSING_SENTINEL
      [] d[p] = "noperm" -> "raised"
      [] OTHER -> Digest(d[p])

\* HistoryManager.calculate_file_hash
calculate_file_hash(d, p) ==
    CASE d[p] = "absent" -> HASH_MISSING_SENTINEL
      [] d[p] = "noperm" -> HASH_ERROR_SENTINEL
      [] OTHER -> Digest(d[p])

\* ------------------------------------------------------------ working sets
\* Arguments of create_new_state: files, selected_items, selection_mode,
\* selected_file.  W2 adds a file to W1; W3 narrows W1 to one symbol of f1.
NoFile == "None"
W1 == [files |-> << "f1" >>, selected_items |-> << >>,
       selection_mode |-> "All Files", selected_file |-> NoFile]
W2 == [W1 EXCEPT !.files = << "f1", "f2" >>]
W3 == [W1 EXCEPT !.selected_items = << "sym" >>,
                 !.selection_mode = "Single File", !.selected_file = "f1"]
WorkingSets == {W1, W2, W3}

Range(s) == { s[i] : i \in 1..Len(s) }

\* The files of the working set hashed whether text or not
current_text_files_unfiltered(d, files) == Range(files)

\* current_text_files = [f for f in current_files if is_text_file_func(f)]
current_text_files(d, files) == { q \in Range(files) : is_text_file(d, q) }

\* file_hashes = {f: self.calculate_file_hash(f) for f in current_text_files}
\* with the files classified on disk d and hashed on disk dh
FileHashesAt(d, dh, files) ==
    [p \in current_text_files(d, files) |-> calculate_file_hash(dh, p)]

FileHashes(d, files) == FileHashesAt(d, d, files)

\* A uuid generator that hands out the previous value again
uuid4_repeated(n) == IF n > 1 THEN n - 1 ELSE n

\* str(uuid.uuid4()): the n-th value drawn differs from all drawn before
uuid4(n) == n

\* The state dict of create_new_state when the files were classified on
\* disk d and hashed on disk dh (d = dh unless a file changed in between).
NewStateAt(d, dh, w, n) ==
    [id |-> uuid4(n), timestamp |-> n,
     files |-> w.files, selected_items |-> w.selected_items,
     selection_mode |-> w.selection_mode, selected_file |-> w.selected_file,
     file_hashes |-> FileHashesAt(d, dh, w.files)]

NewState(d, w, n) == NewStateAt(d, d, w, n)

\* ------------------------------------------------------------------- json
\* The text json.dump writes, as the tree of its tokens: a string, null, an
\* array of strings, an object of strings.
json_string(s) == << "string", s >>
json_null == << "null" >>
json_array(seq) == << "array", [i \in 1..Len(seq) |-> json_string(seq[i])] >>
json_object(map) == << "object", [k \in DOMAIN map |-> json_string(map[k])] >>

\* json.dump(state, f, indent=2)
json_dump(state) ==
    [id |-> json_string(state.id),
     timestamp |-> json_string(state.timestamp),
     files |-> json_array(state.files),
     selected_items |-> json_array(state.selected_items),
     selection_mode |-> json_string(state.selection_mode),
     selected_file |-> IF state.selected_file = NoFile
                       THEN json_null
                       ELSE json_string(state.selected_file),
     file_hashes |-> json_object(state.file_hashes)]

\* What json.load makes of one value
py_str(j) == j[2]
py_list(j) == [i \in DOMAIN j[2] |-> py_str(j[2][i])]
py_dict(j) == [k \in DOMAIN j[2] |-> py_str(j[2][k])]

\* A reader that turns null into the empty string
py_optional_str_empty(j) == IF j = json_null THEN "" ELSE py_str(j)

py_optional_str(j) == IF j = json_null THEN NoFile ELSE py_str(j)

\* json.load(f) of a snapshot file
json_load(text) ==
    [id |-> py_str(text.id),
     timestamp |-> py_str(text.timestamp),
     files |-> py_list(text.files),
     selected_items |-> py_list(text.selected_items),
     selection_mode |-> py_str(text.selection_mode),
     selected_file |-> py_optional_str(text.selected_file),
     file_hashes |-> py_dict(text.file_hashes)]

\* ---------------------------------------------------------------------
\* filekitty/models.py: PromptSession and its JSON form
\* ---------------------------------------------------------------------

\* Optional[T]: None is the empty sequence, a value x the sequence << x >>
None == << >>
Some(x) == << x >>

\* datetime values: date and time of day, microsecond, and utcoffset (None
\* for a naive datetime)
Microseconds == {0, 5, 123456}
Datetimes ==
    { [date |-> "2025-01-02", time |-> "03:04:05", microsecond |-> us, utcoffset |-> off] :
        us \in Microseconds, off \in {None, Some("+00:00"), Some("+05:30")} }

\* The six digits isoformat writes for a microsecond, and their value
zfill6(us) ==
    CASE us = 5 -> "000005"
      [] us = 123456 -> "123456"
      [] OTHER -> "000000"
int6(digits) == CHOOSE us \in Microseconds : zfill6(us) = digits

\* datetime.isoformat(): YYYY-MM-DDTHH:MM:SS, then .ffffff unless the
\* microsecond is 0, then the offset unless the datetime is naive
isoformat(dt) ==
    [date |-> dt.date, time |-> dt.time,
     fraction |-> IF dt.microsecond = 0 THEN None ELSE Some(zfill6(dt.microsecond)),
     offset |-> dt.utcoffset]

\* datetime.fromisoformat()
fromisoformat(text) ==
    [date |-> text.date, time |-> text.time,
     microsecond |-> IF text.fraction = None THEN 0 ELSE int6(text.fraction[1]),
     utcoffset |-> text.offset]

\* The values a settings dict holds: a type and the atoms of the value
PyBool(b) == << "bool", << b >> >>
PyList(atoms) == << "list", atoms >>
PyTuple(atoms) == << "tuple", atoms >>

\* json.dumps of one settings value: a list and a tuple are both written as
\* an array
json_value(v) ==
    CASE v[1] = "bool" -> << "literal", v[2] >>
      [] v[1] \in {"list", "tuple"} -> << "array", v[2] >>
      [] OTHER -> << "string", v[2] >>

\* json.loads of one value: an array is read as a list
py_value(j) ==
    CASE j[1] = "literal" -> << "bool", j[2] >>
      [] j[1] = "array" -> << "list", j[2] >>
      [] OTHER -> << "str", j[2] >>

\* json.dumps of an Optional[str] and of an Optional[int]
json_optional(opt) == IF opt = None THEN json_null ELSE << "scalar", opt[1] >>

\* dict.get read with a truth test, so that "" comes back as None
get_optional_if_truthy(j) ==
    IF j = json_null \/ j = << "scalar", "" >> THEN None ELSE Some(j[2])

\* data.get(key) of a key that to_dict always writes: null is None
get_optional(j) == IF j = json_null THEN None ELSE Some(j[2])

\* TreeSnapshot.to_dict / TreeSnapshot.from_dict
TreeSnapshot_to_dict(t) ==
    [base_path |-> json_string(t.base_path),
     base_path_display |-> json_string(t.base_path_display),
     ignore_regex |-> json_string(t.ignore_regex),
     rendered |-> json_string(t.rendered)]

TreeSnapshot_from_dict(data) ==
    [base_path |-> py_str(data.base_path),
     base_path_display |-> py_str(data.base_path_display),
     ignore_regex |-> py_str(data.ignore_regex),
     rendered |-> py_str(data.rendered)]

\* The dict to_dict builds for one FileMetadata, and FileMetadata(...) of
\* from_dict
FileMetadata_to_dict(fm) ==
    [path |-> json_string(fm.path),
     display_path |-> json_string(fm.display_path),
     is_text_file |-> << "literal", fm.is_text_file >>,
     language |-> json_optional(fm.language),
     last_modified |-> IF fm.last_modified # None
                       THEN Some(isoformat(fm.last_modified[1]))
                       ELSE None,
     file_hash |-> json_optional(fm.file_hash),
     size_bytes |-> json_optional(fm.size_bytes)]

FileMetadata_from_dict(fm_data) ==
    [path |-> py_str(fm_data.path),
     display_path |-> py_str(fm_data.display_path),
     is_text_file |-> fm_data.is_text_file[2],
     language |-> get_optional(fm_data.language),
     last_modified |-> IF fm_data.last_modified # None
                       THEN Some(fromisoformat(fm_data.last_modified[1]))
                       ELSE None,
     file_hash |-> get_optional(fm_data.file_hash),
     size_bytes |-> get_optional(fm_data.size_bytes)]

\* PromptSession.to_json: json.dumps(self.to_dict(), indent=2)
PromptSession_to_json(s) ==
    [id |-> json_string(s.id),
     timestamp |-> isoformat(s.timestamp),
     files |-> json_array(s.files),
     file_metadata |-> [i \in 1..Len(s.file_metadata) |->
                          FileMetadata_to_dict(s.file_metadata[i])],
     selection_state |-> [mode |-> json_string(s.selection_state.mode),
                          selected_file |-> json_optional(s.selection_state.selected_file),
                          selected_items |-> json_array(s.selection_state.selected_items)],
     project_root |-> json_optional(s.project_root),
     tree_snapshot |-> IF s.tree_snapshot # None
                       THEN Some(TreeSnapshot_to_dict(s.tree_snapshot[1]))
                       ELSE None,
     output_text |-> json_optional(s.output_text),
     settings |-> [k \in DOMAIN s.settings |-> json_value(s.settings[k])]]

\* PromptSession.from_json: from_dict(json.loads(json_str))
PromptSession_from_json(json_str) ==
    [id |-> py_str(json_str.id),
     timestamp |-> fromisoformat(json_str.timestamp),
     files |-> py_list(json_str.files),
     file_metadata |-> [i \in 1..Len(json_str.file_metadata) |->
                          FileMetadata_from_dict(json_str.file_metadata[i])],
     selection_state |-> [mode |-> py_str(json_str.selection_state.mode),
                          selected_file |-> get_optional(json_str.selection_state.selected_file),
                          selected_items |-> py_list(json_str.selection_state.selected_items)],
     project_root |-> get_optional(json_str.project_root),
     tree_snapshot |-> IF json_str.tree_snapshot # None
                       THEN Some(TreeSnapshot_from_dict(json_str.tree_snapshot[1]))
                       ELSE None,
     output_text |-> get_optional(json_str.output_text),
     settings |-> [k \in DOMAIN json_str.settings |-> py_value(json_str.settings[k])]]

\* The sessions the round trip is tried on
FileMetadata1 ==
    [path |-> "/path/to/file1.py", display_path |-> "file1.py", is_text_file |-> TRUE,
     language |-> Some("python"),
     last_modified |-> Some([date |-> "2025-01-02", time |-> "03:04:05",
                             microsecond |-> 0, utcoffset |-> Some("+00:00")]),
     file_hash |-> Some("abc123"), size_bytes |-> Some("1024")]
FileMetadata2 ==
    [path |-> "/path/to/image.png", display_path |-> "image.png", is_text_file |-> FALSE,
     language |-> None, last_modified |-> None, file_hash |-> None, size_bytes |-> None]
FileMetadata3 == [FileMetadata1 EXCEPT !.path = "", !.language = Some("")]
FileLists ==
    { << << >>, << >> >>,
      << << "/path/to/file1.py" >>, << FileMetadata1 >> >>,
      << << "/path/to/file1.py", "/path/to/image.png" >>, << FileMetadata1, FileMetadata2 >> >>,
      << << "" >>, << FileMetadata3 >> >> }
SelectionStates ==
    { [mode |-> "All Files", selected_file |-> None, selected_items |-> << >>],
      [mode |-> "Single File", selected_file |-> Some("/path/to/file1.py"),
       selected_items |-> << "MyClass", "my_function" >>] }
OptionalStrings == {None, Some(""), Some("/path/to")}
TreeSnapshots ==
    {None, Some([base_path |-> "/path/to", base_path_display |-> "project/",
                 ignore_regex |-> "\\.git|\\.pyc", rendered |-> "# Tree"]),
           Some([base_path |-> "", base_path_display |-> "", ignore_regex |-> "",
                 rendered |-> ""])}
JsonSettings ==
    { [k \in {} |-> PyBool(TRUE)],
      [k \in {"include_tree", "auto_copy"} |-> PyBool(k = "include_tree")],
      [k \in {"sizes"} |-> PyList(<< 1, 2 >>)] }
TupleSettings == { [k \in {"sizes"} |-> PyTuple(<< 1, 2 >>)] }
PromptSessions ==
    { [id |-> "5f1c", timestamp |-> ts, files |-> fl[1], file_metadata |-> fl[2],
       selection_state |-> sel, project_root |-> root, tree_snapshot |-> tree,
       output_text |-> out, settings |-> st] :
        ts \in Datetimes, fl \in FileLists, sel \in SelectionStates,
        root \in OptionalStrings, tree \in TreeSnapshots,
        out \in {None, Some("# Generated output...")},
        st \in JsonSettings \cup TupleSettings }

\* keys_to_compare of create_new_state with the id compared as well
is_duplicate_with_id(state, last_state) ==
    /\ state.id = last_state.id
    /\ state.files = last_state.files
    /\ state.selected_items = last_state.selected_items
    /\ state.selection_mode = last_state.selection_mode
    /\ state.selected_file = last_state.selected_file
    /\ state.file_hashes = last_state.file_hashes

is_duplicate(state, last_state) ==
    /\ state.files = last_state.files
    /\ state.selected_items = last_state.selected_items
    /\ state.selection_mode = last_state.selection_mode
    /\ state.selected_file = last_state.selected_file
    /\ state.file_hashes = last_state.file_hashes

\* --------------------------------------------------------------- variables
VARIABLES
    history,        \* HistoryManager.history: list of state dicts
    history_index,  \* HistoryManager.history_index
    is_loading,     \* HistoryManager._is_loading_state
    history_dir,    \* HistoryManager.history_dir (NoDir: history disabled)
    history_base_path, \* HistoryManager.history_base_path ("" : default)
    timerActive,    \* FilePicker.staleCheckTimer is running
    staleDisplay,   \* map last handed to _update_stale_status_display
    store,          \* snapshot files on disk: records [dir, id, data, mode]
    disk,           \* content of the tracked paths
    pc,             \* where the event loop is: idle, or inside a modal dialog
    ctx,            \* arguments of the handler that opened the dialog
    nextId,         \* next uuid
    faults,         \* number of I/O faults so far
    others,         \* files of the history directories that are not snapshots
    removed,        \* history directories removed by os.rmdir
    session,        \* a PromptSession, if one was built (Optional)
    session_json,   \* the text to_json returned for it (Optional)
    lastOp          \* the handler that ran last, what it did and returned

vars == << history, history_index, is_loading, history_dir, history_base_path,
           timerActive, staleDisplay, store, disk, pc, ctx, nextId,
           faults, others, removed, session, session_json, lastOp >>

hmVars == << history, history_index, is_loading, history_dir, history_base_path >>
envVars == << disk, faults >>
dirVars == << others, removed >>
psVars == << session, session_json >>

\* op: what ran; ret: the state it returned (<< >> is None); ids: the
\* snapshot ids whose file it failed to remove
Op(name, ret, ids) == [op |-> name, ret |-> ret, ids |-> ids]
\* idx, err: the index load_state was called with and the exception it got;
\* base, dir, failed: the new base path of change_history_directory, the
\* directory it purges and the ids of the files the purge could not remove
NoCtx == [idx |-> -1, err |-> "none", base |-> "", dir |-> NoDir, failed |-> {}]
EmptyMap == [p \in {} |-> "modified"]

\* state_<id>.json in directory dir
SnapshotFile(dir, id) == { f \in store : f.dir = dir /\ f.id = id }
StateFilesIn(st, dir) == { f \in st : f.dir = dir }

\* The timer started whether or not there is a history directory
timer_started_always(dir) == TRUE

\* FilePicker.__init__: "if self.history_manager.get_history_dir():
\*     self.staleCheckTimer.start(...)"
timer_started(dir) == dir # NoDir

Init ==
    /\ history = << >>
    /\ history_index = -1
    /\ is_loading = FALSE
    /\ history_dir \in { NoDir, HistoryPath(TempBase) }
    /\ history_base_path = ""
    /\ timerActive = timer_started(history_dir)
    /\ staleDisplay = EmptyMap
    /\ store = {}
    /\ disk = [p \in Paths |-> IF p = "f1" THEN "v1" ELSE "bin"]
    /\ pc = "idle"
    /\ ctx = NoCtx
    /\ nextId = 1
    /\ faults = 0
    /\ others = {}
    /\ removed = {}
    /\ session = None
    /\ session_json = None
    /\ lastOp = Op("init", << >>, {})

\* The event loop dispatches user and file-open events when no handler is
\* running; a modal message box runs a nested loop that still dispatches
\* timer and file-open events.
Idle == pc = "idle"
InDialog == pc \in {"load_dialog", "relocate_error_dialog", "apply_error_dialog"}


\* ---------------------------------------------------------------- capture
Ids(states) == { states[i].id : i \in 1..Len(states) }

\* The first statement of create_new_state without the test of the flag
capture_disabled_ignores_loading(loading, dir) == dir = NoDir

\* "if self._is_loading_state or not self.history_dir: return"
capture_disabled(loading, dir) == loading \/ dir = NoDir

\* The branch discard without the truncation of the list
kept_states_untruncated(h, index) == h

\* self.history[: self.history_index + 1] when branching, else self.history
kept_states(h, index) ==
    IF index < Len(h) - 1 THEN SubSeq(h, 1, index + 1) ELSE h

\* The slice taken from the current position instead of the one after it
states_to_remove_inclusive(h, index) ==
    IF index < Len(h) - 1 THEN SubSeq(h, index + 1, Len(h)) ELSE << >>

\* self.history[self.history_index + 1 :] when branching
states_to_remove(h, index) ==
    IF index < Len(h) - 1 THEN SubSeq(h, index + 2, Len(h)) ELSE << >>

\* open(state_file_path, "w") + json.dump: the file state_<id>.json of the
\* directory is created, or truncated if it exists, and holds the text of
\* the state (mode "corrupt": the text was cut short by an exception).
write_snapshot(st, dir, state, mode) ==
    { f \in st : ~(f.dir = dir /\ f.id = state.id) }
       \cup {[dir |-> dir, id |-> state.id, data |-> json_dump(state), mode |-> mode]}

\* A failed write after which the reference is appended all the same
history_after_failed_write_appended(h, state) == Append(h, state)

\* except Exception (lines 169-173): an exception of open or json.dump
\* skips lines 153-164 and the list is as it was
history_after_failed_write(h, state) == h

\* A branch discard that gives up at the first os.remove that raises
history_after_discard_aborted(kept, state, rmFail) ==
    IF rmFail = {} THEN Append(kept, state) ELSE kept

\* Lines 156-163: an OSError of os.remove is logged and the loop goes on;
\* then self.history.append(state)
history_after_discard(kept, state, rmFail) == Append(kept, state)

\* The discard written ahead of the write, so that a failed write has
\* already dropped the future states
discarded_on_failed_write_eager(h, index) == states_to_remove(h, index)

\* The states whose files are removed when the write of the new snapshot
\* raises: the discard sits after the write inside the try block, so none
discarded_on_failed_write(h, index) == << >>

\* The duplicate test written after the truncation of the history
history_after_duplicate_truncated(h, index) == kept_states(h, index)

\* The history list after a capture that is skipped as a duplicate: the
\* return comes before the try block
history_after_duplicate(h, index) == h

\* HistoryManager.create_new_state.  w: the arguments; wr: how writing the
\* snapshot file ends ("ok", "open_fail": open() raises and no file exists,
\* "dump_fail": the file was created and json.dump or close raises);
\* rmFail: the old snapshot files whose os.remove raises and that stay;
\* dh: the disk when the files are hashed (a file can change between its
\* classification on line 125 and its hashing on line 126).
create_new_state_at(w, wr, rmFail, dh) ==
    /\ Idle \/ InDialog
    /\ UNCHANGED psVars
    /\ UNCHANGED << is_loading, history_dir, history_base_path, timerActive,
                    pc, ctx, dirVars >>
    /\ (wr # "ok" \/ rmFail # {}) => faults < MaxFaults
    /\ faults' = IF wr # "ok" \/ rmFail # {} THEN faults + 1 ELSE faults
    /\ IF capture_disabled(is_loading, history_dir)
       THEN /\ wr = "ok" /\ rmFail = {} /\ dh = disk
            /\ UNCHANGED << history, history_index, staleDisplay, store, nextId, disk >>
            /\ lastOp' = Op("capture_guarded", << >>, {})
       ELSE LET state == NewStateAt(disk, dh, w, nextId)
                n == Len(history)
            IN  /\ disk' = dh
                /\ IF /\ history_index >= 0 /\ history_index < n
                      /\ is_duplicate(state, history[history_index + 1])
                   THEN /\ wr = "ok" /\ rmFail = {}
                        /\ history' = history_after_duplicate(history, history_index)
                        /\ UNCHANGED << history_index, staleDisplay, store, nextId >>
                        /\ lastOp' = Op("capture_duplicate", << >>, {})
                   ELSE /\ nextId' = nextId + 1
                        /\ CASE wr = "open_fail" ->
                                  /\ rmFail = {}
                                  /\ history' = history_after_failed_write(history, state)
                                  /\ store' = { f \in store :
                                                 \/ f.dir # history_dir
                                                 \/ f.id \notin Ids(discarded_on_failed_write(
                                                                      history, history_index)) }
                                  /\ UNCHANGED << history_index, staleDisplay >>
                                  /\ lastOp' = Op("capture_write_failed", << >>, {})
                             [] wr = "dump_fail" ->
                                  /\ rmFail = {}
                                  /\ store' = { f \in write_snapshot(store, history_dir,
                                                                     state, "corrupt") :
                                                 \/ f.dir # history_dir
                                                 \/ f.id \notin Ids(discarded_on_failed_write(
                                                                      history, history_index)) }
                                  /\ history' = history_after_failed_write(history, state)
                                  /\ UNCHANGED << history_index, staleDisplay >>
                                  /\ lastOp' = Op("capture_write_failed", << >>, {})
                             [] wr = "ok" ->
                                  LET written == write_snapshot(store, history_dir, state, "ok")
                                      kept == kept_states(history, history_index)
                                      removable ==
                                         { f \in written :
                                             /\ f.dir = history_dir
                                             /\ f.id \in Ids(states_to_remove(history, history_index)) }
                                  IN  /\ rmFail \subseteq { f.id : f \in removable }
                                      /\ store' = written \ { f \in removable : f.id \notin rmFail }
                                      /\ history' = history_after_discard(kept, state, rmFail)
                                      /\ history_index' = Len(history') - 1
                                      /\ staleDisplay' = EmptyMap
                                      /\ lastOp' = Op("capture_saved", << >>, rmFail)

\* create_new_state when no file changes while it runs
create_new_state(w, wr, rmFail) == create_new_state_at(w, wr, rmFail, disk)

WriteOutcomes == {"ok", "open_fail", "dump_fail"}

\* The handlers of FilePicker that call create_new_state
Capture ==
    /\ nextId <= MaxStates
    /\ \E w \in WorkingSets, wr \in WriteOutcomes, rmFail \in SUBSET (1..MaxStates) :
         create_new_state(w, wr, rmFail)

CaptureTracked ==
    /\ nextId <= MaxTrackedStates
    /\ \E w \in WorkingSets : create_new_state(w, "ok", {})

\* -------------------------------------------------------------- staleness
\* A classification that compares the two hashes before anything else
StaleStatus_equal_first(current_hash, stored_hash) ==
    CASE current_hash = stored_hash -> "current"
      [] current_hash = HASH_MISSING_SENTINEL -> "missing"
      [] current_hash = HASH_ERROR_SENTINEL -> "error"
      [] OTHER -> "modified"

\* Classification of one path in check_stale_status ("current": no entry).
StaleStatus(current_hash, stored_hash) ==
    CASE current_hash = HASH_MISSING_SENTINEL -> "missing"
      [] current_hash = HASH_ERROR_SENTINEL -> "error"
      [] current_hash # stored_hash -> "modified"
      [] OTHER -> "current"

\* FilePicker._check_stale_status of filekitty/app.py: every stored path is
\* hashed and classified.
check_stale_status_all_paths(state_data, d) ==
    LET stored_hashes == state_data.file_hashes
        stale == { p \in DOMAIN stored_hashes :
                     StaleStatus(calculate_file_hash(d, p), stored_hashes[p]) # "current" }
    IN  [p \in stale |-> StaleStatus(calculate_file_hash(d, p), stored_hashes[p])]

\* HistoryManager.check_stale_status: a stored path is hashed and classified
\* only if is_text_file_func(file_path) holds now.  d is the disk when the
\* path is classified (line 227), dh the disk when it is hashed (line 228).
check_stale_status_at(state_data, d, dh) ==
    LET stored_hashes == state_data.file_hashes
        stale == { p \in DOMAIN stored_hashes :
                     /\ is_text_file(d, p)
                     /\ StaleStatus(calculate_file_hash(dh, p), stored_hashes[p]) # "current" }
    IN  [p \in stale |-> StaleStatus(calculate_file_hash(dh, p), stored_hashes[p])]

\* check_stale_status when no file changes while it runs
check_stale_status(state_data, d) == check_stale_status_at(state_data, d, d)

\* The character pair the label text starts with (U+26A0 U+FE0F)
WARNING_SIGN == "<warning sign>"

\* The if chain written with the test for "error" ahead of "missing"
display_text_error_first(statuses) ==
    IF "error" \in statuses THEN "File Errors!"
    ELSE IF "missing" \in statuses THEN "Files Missing!"
    ELSE IF "modified" \in statuses THEN "Files Modified"
    ELSE "Files Changed (?)"

\* The if chain of _update_stale_status_display over stale_status.values()
display_text(statuses) ==
    IF "missing" \in statuses THEN "Files Missing!"
    ELSE IF "error" \in statuses THEN "File Errors!"
    ELSE IF "modified" \in statuses THEN "Files Modified"
    ELSE "Files Changed (?)"

\* FilePicker._update_stale_status_display: what staleIndicatorLabel shows
\* for the map it is handed
_update_stale_status_display(stale_status) ==
    IF DOMAIN stale_status = {}
    THEN [visible |-> FALSE, text |-> ""]
    ELSE [visible |-> TRUE,
          text |-> WARNING_SIGN \o " " \o
                   display_text({ stale_status[p] : p \in DOMAIN stale_status })]

\* The state at the end of the list taken for the current one
get_last_state_data ==
    IF history # << >> THEN << history[Len(history)] >> ELSE << >>

\* HistoryManager.get_current_state_data (<< >> is None)
get_current_state_data ==
    IF 0 <= history_index /\ history_index < Len(history)
    THEN << history[history_index + 1] >>
    ELSE << >>

\* -------------------------------------------------------------- navigation
Min(a, b) == IF a < b THEN a ELSE b

\* The removal of the broken state written as self.history.pop()
delete_last(h, state_index) == SubSeq(h, 1, Len(h) - 1)

\* del self.history[state_index]
delete_at(h, state_index) ==
    SubSeq(h, 1, state_index) \o SubSeq(h, state_index + 2, Len(h))

\* The index left as it was after the removal
index_unadjusted(index, length) == index

\* self.history_index = min(self.history_index, len(self.history) - 1)
index_after_removal(index, length) == Min(index, length - 1)

\* A finally clause that an exception other than the two handled skips
flag_after_load_skipped(err) == err = "other_error"

\* finally: self._is_loading_state = False
flag_after_load(err) == FALSE

\* What open() + json.load of the snapshot file of history[state_index] gives
ReadOutcome(state_index) ==
    LET fs == SnapshotFile(history_dir, history[state_index + 1].id)
    IN  IF fs = {} THEN "not_found"
        ELSE LET f == CHOOSE g \in fs : TRUE
             IN  CASE f.mode = "ok" -> "ok"
                   [] f.mode = "corrupt" -> "decode_error"
                   [] OTHER -> "other_error"

\* HistoryManager.load_state up to its return or up to the message box of
\* an except branch.  On success the caller (go_back / go_forward) applies
\* the data and shows the stale status of the new current state.
load_state(state_index, who) ==
    IF ~(0 <= state_index /\ state_index < Len(history))
    THEN /\ UNCHANGED << hmVars, timerActive, staleDisplay, store, pc, ctx >>
         /\ lastOp' = Op(who \o "_invalid_index", << >>, {})
    ELSE LET outcome == ReadOutcome(state_index)
             f == CHOOSE g \in SnapshotFile(history_dir, history[state_index + 1].id) : TRUE
         IN  IF outcome = "ok"
             THEN /\ history_index' = state_index
                  /\ is_loading' = flag_after_load("none")
                  /\ pc' = "applying"
                  /\ UNCHANGED << history, history_dir, history_base_path,
                                  timerActive, staleDisplay, store, ctx >>
                  /\ lastOp' = Op(who \o "_loaded", << json_load(f.data) >>, {})
             ELSE /\ is_loading' = TRUE
                  /\ pc' = "load_dialog"
                  /\ ctx' = [NoCtx EXCEPT !.idx = state_index, !.err = outcome]
                  /\ UNCHANGED << history, history_index, history_dir, history_base_path,
                                  timerActive, staleDisplay, store >>
                  /\ lastOp' = Op(who \o "_load_error", << >>, {})

\* The rest of load_state once the message box is closed: the except branch
\* and the finally clause.
load_state_error_handled ==
    /\ pc = "load_dialog"
    /\ UNCHANGED psVars
    /\ IF ctx.err \in {"not_found", "decode_error"}
       THEN /\ history' = delete_at(history, ctx.idx)
            /\ history_index' = index_after_removal(history_index, Len(history'))
            /\ lastOp' = Op("load_failed_pruned", << >>, {})
       ELSE /\ UNCHANGED << history, history_index >>
            /\ lastOp' = Op("load_failed_unhandled", << >>, {})
    /\ is_loading' = flag_after_load(ctx.err)
    /\ pc' = "idle"
    /\ ctx' = NoCtx
    /\ UNCHANGED << history_dir, history_base_path, timerActive, staleDisplay,
                    store, envVars, dirVars, nextId >>

\* The stale status go_back and go_forward show once the state is applied
\* (main_window.py lines 724-730 and 740-746)
stale_status_after_apply ==
    IF get_current_state_data # << >>
    THEN check_stale_status(get_current_state_data[1], disk)
    ELSE EmptyMap

\* FilePicker._apply_loaded_state_data and the rest of go_back / go_forward,
\* run when load_state has returned a state.  applyOk: no statement of the
\* try block raises; otherwise the except clause opens a message box.
_apply_loaded_state_data(applyOk) ==
    /\ pc = "applying"
    /\ UNCHANGED psVars
    /\ ~applyOk => faults < MaxFaults
    /\ faults' = IF applyOk THEN faults ELSE faults + 1
    /\ IF applyOk
       THEN /\ pc' = "idle"
            /\ staleDisplay' = stale_status_after_apply
            /\ lastOp' = Op("state_applied", << >>, {})
       ELSE /\ pc' = "apply_error_dialog"
            /\ staleDisplay' = staleDisplay
            /\ lastOp' = Op("apply_error", << >>, {})
    /\ UNCHANGED << hmVars, timerActive, store, disk, dirVars, ctx, nextId >>

\* The message box of _apply_loaded_state_data is closed and go_back or
\* go_forward goes on with the stale status of the current state.
apply_error_dismissed ==
    /\ pc = "apply_error_dialog"
    /\ UNCHANGED psVars
    /\ pc' = "idle"
    /\ staleDisplay' = stale_status_after_apply
    /\ UNCHANGED << hmVars, timerActive, store, envVars, dirVars, ctx, nextId >>
    /\ lastOp' = Op("apply_error_dismissed", << >>, {})

\* go_back written with a clamped target instead of the guard
go_back_clamped ==
    /\ Idle
    /\ UNCHANGED psVars
    /\ UNCHANGED << envVars, dirVars, nextId >>
    /\ load_state(IF history_index > 0 THEN history_index - 1 ELSE 0, "back")

\* FilePicker.go_back
go_back ==
    /\ Idle
    /\ UNCHANGED psVars
    /\ UNCHANGED << envVars, dirVars, nextId >>
    /\ IF history_index > 0
       THEN load_state(history_index - 1, "back")
       ELSE /\ UNCHANGED << hmVars, timerActive, staleDisplay, store, pc, ctx >>
            /\ lastOp' = Op("back_noop", << >>, {})

\* FilePicker.go_forward
go_forward ==
    /\ Idle
    /\ UNCHANGED psVars
    /\ UNCHANGED << envVars, dirVars, nextId >>
    /\ IF history_index < Len(history) - 1
       THEN load_state(history_index + 1, "forward")
       ELSE /\ UNCHANGED << hmVars, timerActive, staleDisplay, store, pc, ctx >>
            /\ lastOp' = Op("forward_noop", << >>, {})

\* ------------------------------------------------------------------- poll
\* The condition of _poll_stale_status under which it clears the indicator
\* and returns (lines 761-771)
poll_skipped_ignores_loading(loading, dir, h, index) ==
    dir = NoDir \/ h = << >> \/ index < 0

\* The early return of _poll_stale_status
poll_skipped(loading, dir, h, index) ==
    loading \/ dir = NoDir \/ h = << >> \/ index < 0

\* The map _poll_stale_status hands to _update_stale_status_display when
\* the files are hashed on disk dh
stale_status_polled(dh) ==
    IF poll_skipped(is_loading, history_dir, history, history_index)
    THEN EmptyMap
    ELSE IF get_current_state_data # << >>
         THEN check_stale_status_at(get_current_state_data[1], disk, dh)
         ELSE EmptyMap

\* FilePicker._poll_stale_status, run by staleCheckTimer.timeout
_poll_stale_status_at(dh) ==
    /\ timerActive
    /\ UNCHANGED psVars
    /\ Idle \/ InDialog
    /\ UNCHANGED << hmVars, timerActive, store, faults, dirVars, pc, ctx, nextId >>
    /\ staleDisplay' = stale_status_polled(dh)
    /\ IF poll_skipped(is_loading, history_dir, history, history_index)
       THEN /\ dh = disk
            /\ UNCHANGED disk
            /\ lastOp' = Op("poll_skipped", << >>, {})
       ELSE /\ disk' = dh
            /\ lastOp' = Op("poll_checked", << >>, {})

\* _poll_stale_status when no file changes while it runs
_poll_stale_status == _poll_stale_status_at(disk)

\* ------------------------------------------------------------ environment
\* Another program writes, replaces, deletes or locks a tracked file.
DiskEdit ==
    /\ Idle \/ InDialog
    /\ UNCHANGED psVars
    /\ \E p \in EditedPaths, c \in EditContents :
         /\ disk[p] # c
         /\ disk' = [disk EXCEPT ![p] = c]
    /\ UNCHANGED << hmVars, timerActive, staleDisplay, store, pc, ctx,
                    nextId, faults, dirVars >>
    /\ lastOp' = Op("environment", << >>, {})

\* A snapshot file is deleted, truncated or made unreadable behind the
\* program's back.
SnapshotFault ==
    /\ Idle
    /\ UNCHANGED psVars
    /\ faults < MaxFaults
    /\ \E f \in store, kind \in {"delete", "corrupt", "noperm"} :
         /\ f.mode = "ok"
         /\ store' = IF kind = "delete"
                     THEN store \ {f}
                     ELSE (store \ {f}) \cup {[f EXCEPT !.mode = kind]}
    /\ faults' = faults + 1
    /\ UNCHANGED << hmVars, timerActive, staleDisplay, disk, pc, ctx, nextId,
                    dirVars >>
    /\ lastOp' = Op("environment", << >>, {})

\* --------------------------------------------------------------- relocate
\* HistoryManager.cleanup_history_files(specific_dir=cleanup_dir) applied to
\* the files st: every state_*.json of the directory is removed, except the
\* ones whose os.remove raises.  Before it: a purge that returns at once.
cleanup_history_files_skipped(st, cleanup_dir, rmFail) == st

cleanup_history_files(st, cleanup_dir, rmFail) ==
    IF cleanup_dir = NoDir
    THEN st
    ELSE st \ { f \in st : f.dir = cleanup_dir /\ f.id \notin rmFail }

\* A file name as prefix, stem and suffix.  The names of files that other
\* programs, or an earlier session, leave in a history directory.
ForeignNames == { << "state_", "notes", ".txt" >>, << "", "cache", ".json" >>,
                  << "", "readme", ".md" >>, << "state_", "old", ".json" >> }

\* A test of the suffix alone
is_state_file_by_suffix(filename) == filename[3] = ".json"

\* filename.startswith("state_") and filename.endswith(".json")
is_state_file(filename) == filename[1] = "state_" /\ filename[3] = ".json"

\* os.path.isdir(cleanup_dir) for a history directory
is_directory(dir) == dir # NoDir /\ dir \notin removed

\* cleanup_history_files applied to the files oth that are not snapshots
\* of this session: those named like a snapshot are removed with them.
cleanup_other_files(oth, cleanup_dir) ==
    IF cleanup_dir = NoDir
    THEN oth
    ELSE { o \in oth : ~(o.dir = cleanup_dir /\ is_state_file(o.name)) }

\* The test of lines 265-267 made whoever calls
removes_directory_any_caller(specific_dir, cleanup_dir, listing) ==
    /\ cleanup_dir[Len(cleanup_dir)] = HISTORY_DIR_NAME
    /\ listing = {}

\* "if not specific_dir and cleanup_dir.endswith(HISTORY_DIR_NAME):
\*      if not os.listdir(cleanup_dir): os.rmdir(cleanup_dir)"
removes_directory(specific_dir, cleanup_dir, listing) ==
    /\ specific_dir = NoDir
    /\ cleanup_dir[Len(cleanup_dir)] = HISTORY_DIR_NAME
    /\ listing = {}

\* os.listdir(dir) with the snapshot files st and the other files oth: the
\* snapshots of this session by their id, the other files by their name
listdir(st, oth, dir) ==
    { << "snapshot", f.id >> : f \in { g \in st : g.dir = dir } }
       \cup { << "other", o.name >> : o \in { q \in oth : q.dir = dir } }

\* HistoryManager.cleanup_history_files() as registered with atexit: the
\* purge of history_dir and, if nothing is left in it, its removal.
\* rmFail: the snapshot files whose os.remove raises; rmdirOk: os.rmdir
\* does not raise.
atexit_cleanup(rmFail, rmdirOk) ==
    /\ Idle
    /\ UNCHANGED psVars
    /\ (rmFail # {} \/ ~rmdirOk) => faults < MaxFaults
    /\ faults' = IF rmFail # {} \/ ~rmdirOk THEN faults + 1 ELSE faults
    /\ rmFail \subseteq { f.id : f \in StateFilesIn(store, history_dir) }
    /\ IF is_directory(history_dir)
       THEN /\ store' = cleanup_history_files(store, history_dir, rmFail)
            /\ others' = cleanup_other_files(others, history_dir)
            /\ IF removes_directory(NoDir, history_dir,
                                    listdir(store', others', history_dir))
               THEN removed' = IF rmdirOk THEN removed \cup {history_dir} ELSE removed
               ELSE rmdirOk /\ removed' = removed
       ELSE /\ rmFail = {} /\ rmdirOk
            /\ UNCHANGED << store, others, removed >>
    /\ timerActive' = FALSE
    /\ pc' = "exited"
    /\ UNCHANGED << hmVars, staleDisplay, disk, ctx, nextId >>
    /\ lastOp' = Op("shutdown_cleanup", << >>, rmFail)

\* change_history_directory without the staleCheckTimer.stop() call
change_history_directory_timer_kept(new_base_path) ==
    /\ Idle
    /\ UNCHANGED psVars
    /\ new_base_path # history_base_path
    /\ timerActive' = timerActive
    /\ pc' = "relocate_timer_stopped"
    /\ ctx' = [NoCtx EXCEPT !.base = new_base_path, !.dir = history_dir]
    /\ UNCHANGED << hmVars, staleDisplay, store, envVars, dirVars, nextId >>
    /\ lastOp' = Op("relocate_begin", << >>, {})

\* HistoryManager.change_history_directory, first statement: the timer is
\* stopped.  FilePicker.showPreferences calls it when the dialog was accepted
\* with a history path other than the one in use.
change_history_directory(new_base_path) ==
    /\ Idle
    /\ UNCHANGED psVars
    /\ new_base_path # history_base_path
    /\ timerActive' = FALSE
    /\ pc' = "relocate_timer_stopped"
    /\ ctx' = [NoCtx EXCEPT !.base = new_base_path, !.dir = history_dir]
    /\ UNCHANGED << hmVars, staleDisplay, store, envVars, dirVars, nextId >>
    /\ lastOp' = Op("relocate_begin", << >>, {})

\* change_history_directory, lines 281-287: purge of the old directory and
\* reset of the in-memory history.
change_history_directory_purge(rmFail) ==
    /\ pc = "relocate_timer_stopped"
    /\ UNCHANGED psVars
    /\ rmFail # {} => faults < MaxFaults
    /\ rmFail \subseteq { f.id : f \in StateFilesIn(store, history_dir) }
    /\ faults' = IF rmFail # {} THEN faults + 1 ELSE faults
    /\ IF is_directory(history_dir)
       THEN /\ store' = cleanup_history_files(store, history_dir, rmFail)
            /\ others' = cleanup_other_files(others, history_dir)
            /\ removed' = IF removes_directory(history_dir, history_dir,
                                               listdir(store', others', history_dir))
                          THEN removed \cup {history_dir}
                          ELSE removed
       ELSE UNCHANGED << store, others, removed >>
    /\ history' = << >>
    /\ history_index' = -1
    /\ history_base_path' = ctx.base
    /\ pc' = "relocate_purged"
    /\ ctx' = [ctx EXCEPT !.failed = rmFail]
    /\ UNCHANGED << is_loading, history_dir, timerActive, staleDisplay, disk, nextId >>
    /\ lastOp' = Op("relocate_purge", << >>, rmFail)

\* change_history_directory, lines 291-296: _initialize_history_directory
\* and, if it set a directory, the restart of the timer.  isdir: the
\* user-defined base path is a directory; mkdirOk: mkdir does not raise.
\* A failed mkdir opens the message box of _initialize_history_directory.
change_history_directory_initialize(isdir, mkdirOk) ==
    /\ pc = "relocate_purged"
    /\ UNCHANGED psVars
    /\ ~mkdirOk => faults < MaxFaults
    /\ faults' = IF mkdirOk THEN faults ELSE faults + 1
    /\ LET user == history_base_path # "" /\ isdir
           base_path_to_use == IF user THEN history_base_path ELSE TempBase
       IN  /\ history_base_path' = IF user THEN history_base_path ELSE ""
           /\ IF mkdirOk
              THEN /\ history_dir' = HistoryPath(base_path_to_use)
                   /\ removed' = removed \ {HistoryPath(base_path_to_use)}
                   /\ timerActive' = TRUE
                   /\ pc' = "idle"
                   /\ ctx' = NoCtx
                   /\ lastOp' = Op("relocated", << >>, ctx.failed)
              ELSE /\ history_dir' = NoDir
                   /\ removed' = removed
                   /\ timerActive' = timerActive
                   /\ pc' = "relocate_error_dialog"
                   /\ ctx' = ctx
                   /\ lastOp' = Op("relocate_mkdir_failed", << >>, {})
    /\ UNCHANGED << history, history_index, is_loading, staleDisplay, store, disk,
                    nextId, others >>

\* change_history_directory, lines 293-308 after a failed mkdir: the message
\* box is closed, history_dir is empty and the timer is not started.
change_history_directory_failed ==
    /\ pc = "relocate_error_dialog"
    /\ UNCHANGED psVars
    /\ pc' = "idle"
    /\ ctx' = NoCtx
    /\ UNCHANGED << hmVars, timerActive, staleDisplay, store, envVars, dirVars,
                    nextId >>
    /\ lastOp' = Op("relocate_failed", << >>, ctx.failed)

Relocate ==
    \/ \E new_base_path \in {"", UserBase} : change_history_directory(new_base_path)
    \/ \E rmFail \in SUBSET (1..MaxStates) : change_history_directory_purge(rmFail)
    \/ \E isdir \in BOOLEAN, mkdirOk \in BOOLEAN :
          change_history_directory_initialize(isdir, mkdirOk)
    \/ change_history_directory_failed

Next ==
    \/ Relocate
    \/ Capture
    \/ go_back
    \/ go_forward
    \/ load_state_error_handled
    \/ \E applyOk \in BOOLEAN : _apply_loaded_state_data(applyOk)
    \/ apply_error_dismissed
    \/ _poll_stale_status
    \/ SnapshotFault

Spec == Init /\ [][Next]_vars

\* The history of a working set whose files are edited meanwhile
NextStale ==
    \/ CaptureTracked
    \/ go_back
    \/ go_forward
    \/ _apply_loaded_state_data(TRUE)
    \/ _poll_stale_status
    \/ DiskEdit

SpecStale == Init /\ [][NextStale]_vars

\* ------------------------------------------- purge of shared directories
\* Another program, or an earlier session, leaves a file in a history
\* directory.
ForeignFile ==
    /\ Idle
    /\ UNCHANGED psVars
    /\ Cardinality(others) < MaxForeignFiles
    /\ \E dir \in Dirs \ removed, name \in ForeignNames :
          /\ [dir |-> dir, name |-> name] \notin others
          /\ others' = others \cup {[dir |-> dir, name |-> name]}
    /\ UNCHANGED << hmVars, timerActive, staleDisplay, store, disk, pc, ctx,
                    nextId, faults, removed >>
    /\ lastOp' = Op("environment", << >>, {})

\* The interpreter exits and runs the handlers registered with atexit
Shutdown ==
    \E rmFail \in SUBSET (1..MaxTrackedStates), rmdirOk \in BOOLEAN :
        atexit_cleanup(rmFail, rmdirOk)

NextPurge ==
    \/ CaptureTracked
    \/ Relocate
    \/ ForeignFile
    \/ Shutdown

SpecPurge == Init /\ [][NextPurge]_vars

\* ------------------------------------------------- hashing of changing files
\* The history directory exists; the tracked paths hold anything.
\* Navigation while snapshot files break and a tracked file is edited: the
\* loading guard, the dialogs of load_state and of _apply_loaded_state_data
\* and the timer poll meet here.
CaptureGuard ==
    /\ nextId <= MaxGuardedStates
    /\ \E w \in {W1, W2} : create_new_state(w, "ok", {})

FileEdited ==
    /\ DiskEdit
    /\ disk'["f1"] = "v2"

NextGuard ==
    \/ CaptureGuard
    \/ go_back
    \/ go_forward
    \/ load_state_error_handled
    \/ \E applyOk \in BOOLEAN : _apply_loaded_state_data(applyOk)
    \/ apply_error_dismissed
    \/ _poll_stale_status
    \/ FileEdited
    \/ SnapshotFault

SpecGuard == Init /\ [][NextGuard]_vars

InitHash ==
    /\ history = << >>
    /\ history_index = -1
    /\ is_loading = FALSE
    /\ history_dir = HistoryPath(TempBase)
    /\ history_base_path = ""
    /\ timerActive = timer_started(history_dir)
    /\ staleDisplay = EmptyMap
    /\ store = {}
    /\ disk \in [Paths -> Contents]
    /\ pc = "idle"
    /\ ctx = NoCtx
    /\ nextId = 1
    /\ faults = 0
    /\ others = {}
    /\ removed = {}
    /\ session = None
    /\ session_json = None
    /\ lastOp = Op("init", << >>, {})

\* The disks that differ from disk in what an edited path holds, and disk
RacedDisks == { [disk EXCEPT ![p] = c] : p \in EditedPaths, c \in Contents }

\* create_new_state while another program may write a tracked file
CaptureRacing ==
    /\ nextId <= MaxHashedStates
    /\ \E w \in WorkingSets, dh \in RacedDisks : create_new_state_at(w, "ok", {}, dh)

\* _poll_stale_status while another program may write a tracked file
PollRacing == \E dh \in RacedDisks : _poll_stale_status_at(dh)

NextHash ==
    \/ CaptureRacing
    \/ PollRacing

SpecHash == InitHash /\ [][NextHash]_vars

\* The stale indicator: any of the tracked files may have changed in any
\* way by the time the timer fires.
CaptureDisplayed ==
    /\ nextId <= MaxDisplayedStates
    /\ \E w \in WorkingSets : create_new_state(w, "ok", {})

PollDisplayed == \E dh \in [Paths -> Contents] : _poll_stale_status_at(dh)

NextDisplay ==
    \/ CaptureDisplayed
    \/ PollDisplayed

SpecDisplay == InitHash /\ [][NextDisplay]_vars

\* A PromptSession is built, written with to_json and read with from_json.
InitSession ==
    /\ history = << >>
    /\ history_index = -1
    /\ is_loading = FALSE
    /\ history_dir = HistoryPath(TempBase)
    /\ history_base_path = ""
    /\ timerActive = timer_started(history_dir)
    /\ staleDisplay = EmptyMap
    /\ store = {}
    /\ disk = [p \in Paths |-> IF p = "f1" THEN "v1" ELSE "bin"]
    /\ pc = "idle"
    /\ ctx = NoCtx
    /\ nextId = 1
    /\ faults = 0
    /\ others = {}
    /\ removed = {}
    /\ session \in { Some(s) : s \in PromptSessions }
    /\ session_json = None
    /\ lastOp = Op("init", << >>, {})

\* json_str = session.to_json()
to_json ==
    /\ session # None
    /\ session_json' = Some(PromptSession_to_json(session[1]))
    /\ UNCHANGED << hmVars, timerActive, staleDisplay, store, envVars, pc, ctx,
                    nextId, dirVars, session >>
    /\ lastOp' = Op("to_json", << >>, {})

\* PromptSession.from_json(json_str)
from_json ==
    /\ session_json # None
    /\ UNCHANGED << hmVars, timerActive, staleDisplay, store, envVars, pc, ctx,
                    nextId, dirVars, psVars >>
    /\ lastOp' = Op("from_json", << PromptSession_from_json(session_json[1]) >>, {})

NextSession ==
    \/ to_json
    \/ from_json

SpecSession == InitSession /\ [][NextSession]_vars

\* ================================================================== claims
CaptureOps == {"capture_guarded", "capture_duplicate", "capture_write_failed",
               "capture_saved"}
BackOps == {"back_noop", "back_loaded", "back_load_error", "back_invalid_index"}
ForwardOps == {"forward_noop", "forward_loaded", "forward_load_error",
               "forward_invalid_index"}
PollOps == {"poll_skipped", "poll_checked"}

FilesOf(st, dir, id) == { f \in st : f.dir = dir /\ f.id = id }

\* C1 (branch discard).  A step of create_new_state that saved a snapshot
\* while history_index was not the tail keeps the references up to
\* history_index unchanged, drops every reference after it from the list,
\* leaves no snapshot file of a dropped reference in the store (except a
\* file whose os.remove raised, which the code only logs), appends one new
\* reference and sets history_index to the last position; a go_forward that
\* follows is a no-op.
C1_BranchDiscard ==
    [][ /\ (lastOp'.op = "capture_saved" /\ history_index < Len(history) - 1) =>
            LET k == history_index + 1
                n == Len(history)
            IN  /\ Len(history') = k + 1
                /\ \A i \in 1..k : history'[i] = history[i]
                /\ \A i \in (k + 1)..n :
                     /\ history[i].id \notin Ids(history')
                     /\ history[i].id \notin lastOp'.ids
                          => FilesOf(store', history_dir, history[i].id) = {}
                /\ history'[k + 1].id \notin Ids(history)
                /\ FilesOf(store', history_dir, history'[k + 1].id) # {}
                /\ history_index' = Len(history') - 1
        /\ (lastOp.op = "capture_saved" /\ lastOp'.op \in ForwardOps) =>
                /\ lastOp'.op = "forward_noop"
                /\ UNCHANGED << history, history_index, store >>
      ]_vars

\* A snapshot was saved at position 2 with id 3 and no I/O fault happened:
\* snapshot 2 was captured, left by go_back and discarded by this capture.
C1_Witness ==
    /\ lastOp.op = "capture_saved"
    /\ faults = 0
    /\ Len(history) = 2
    /\ history[1].id = 1 /\ history[2].id = 3
    /\ FilesOf(store, history_dir, 2) = {}

\* C2 (de-duplication).  A step of create_new_state whose five compared
\* fields equal those of history[history_index] leaves the history list,
\* history_index and the snapshot files unchanged.
SameAsCurrent(w) ==
    /\ history_index >= 0
    /\ history_index < Len(history)
    /\ LET cur == history[history_index + 1]
       IN  /\ w.files = cur.files
           /\ w.selected_items = cur.selected_items
           /\ w.selection_mode = cur.selection_mode
           /\ w.selected_file = cur.selected_file
           /\ FileHashes(disk, w.files) = cur.file_hashes

C2_Deduplication ==
    [][ \A w \in WorkingSets :
          (create_new_state(w, "ok", {}) /\ SameAsCurrent(w)) =>
              /\ Len(history') = Len(history)
              /\ UNCHANGED << history, history_index, store >>
      ]_vars

\* A capture was skipped as a duplicate of a snapshot taken after an edit
\* of f1 (its stored hash is that of the second text).
C2_Witness ==
    /\ lastOp.op = "capture_duplicate"
    /\ history_index >= 0
    /\ "f1" \in DOMAIN history[history_index + 1].file_hashes
    /\ history[history_index + 1].file_hashes["f1"] = Digest("v2")

\* C3 (index invariant).  -1 <= history_index < len(history), and
\* history_index = -1 exactly when the list is empty.
C3_IndexInvariant ==
    /\ -1 <= history_index
    /\ history_index < Len(history)
    /\ (history_index = -1) <=> (history = << >>)

\* A broken snapshot was pruned by a failed go_back from the tail of a
\* two-entry list: the list shrank under the index.
C3_Witness ==
    /\ lastOp.op = "load_failed_pruned"
    /\ Len(history) = 1
    /\ history_index = 0
    /\ history[1].id = 2

\* C4 (staleness of the current snapshot).  A poll that checks the current
\* snapshot reports a tracked path that is gone from disk as "missing", one
\* that holds other text than at capture as "modified", and has no entry
\* for one that holds the captured bytes.
C4_StalenessReport ==
    [][ lastOp'.op = "poll_checked" =>
          LET stored_hashes == history[history_index + 1].file_hashes
          IN  \A p \in DOMAIN stored_hashes :
                /\ disk[p] = "absent" =>
                     (p \in DOMAIN staleDisplay' /\ staleDisplay'[p] = "missing")
                /\ (disk[p] \in {"v1", "v2"} /\ Digest(disk[p]) # stored_hashes[p]) =>
                     (p \in DOMAIN staleDisplay' /\ staleDisplay'[p] = "modified")
                /\ (disk[p] \in {"v1", "v2"} /\ Digest(disk[p]) = stored_hashes[p]) =>
                     p \notin DOMAIN staleDisplay'
      ]_vars

\* C5 (failed load).  A go_back or go_forward whose target snapshot file is
\* missing or unparseable returns no state; once its message box is closed
\* exactly the targeted reference is gone from the list, the others keep
\* their order, and history_index is within the shortened list.
BrokenTarget(t) ==
    LET fs == FilesOf(store, history_dir, history[t + 1].id)
    IN  fs = {} \/ \A f \in fs : f.mode = "corrupt"

C5_FailedLoadPrunes ==
    [][ /\ \A t \in 0..(Len(history) - 1) :
             ( /\ \/ lastOp'.op \in BackOps /\ history_index > 0
                        /\ t = history_index - 1
                  \/ lastOp'.op \in ForwardOps /\ history_index < Len(history) - 1
                        /\ t = history_index + 1
               /\ BrokenTarget(t) )
             => /\ lastOp'.ret = << >>
                /\ pc' = "load_dialog"
                /\ ctx'.idx = t
                /\ ctx'.err \in {"not_found", "decode_error"}
                /\ UNCHANGED << history, history_index >>
        /\ ( /\ pc = "load_dialog" /\ pc' # "load_dialog"
             /\ ctx.err \in {"not_found", "decode_error"} )
             => /\ lastOp'.ret = << >>
                /\ Len(history') = Len(history) - 1
                /\ \A i \in 1..ctx.idx : history'[i] = history[i]
                /\ \A i \in (ctx.idx + 1)..Len(history') : history'[i] = history[i + 1]
                /\ 0 <= history_index'
                /\ history_index' < Len(history')
      ]_vars

\* A go_back from the tail of a three-entry list failed on snapshot 2, which
\* was pruned: snapshots 1 and 3 remain, in order.
C5_Witness ==
    /\ lastOp.op = "load_failed_pruned"
    /\ Len(history) = 2
    /\ history[1].id = 1 /\ history[2].id = 3
    /\ \A f \in FilesOf(store, history_dir, 2) : f.mode = "corrupt"
    /\ faults = 1

\* C6 (navigation at the ends).  go_back with history_index <= 0 and
\* go_forward with history_index at the last position change neither
\* history_index, the list nor the store, and load nothing.
NothingLoaded ==
    /\ UNCHANGED << history, history_index, store, is_loading, pc >>
    /\ lastOp'.ret = << >>

C6_NavigationNoOps ==
    [][ /\ (lastOp'.op \in BackOps /\ history_index <= 0) => NothingLoaded
        /\ (lastOp'.op \in ForwardOps /\ history_index >= Len(history) - 1)
              => NothingLoaded
      ]_vars

\* go_back ran at the first of two entries.
C6_Witness ==
    /\ lastOp.op = "back_noop"
    /\ history_index = 0
    /\ Len(history) = 2

RelocatingPcs == {"relocate_timer_stopped", "relocate_purged", "relocate_error_dialog"}

C8_TimerStoppedWhileRelocating ==
    [][ /\ pc' \in RelocatingPcs => ~timerActive'
        /\ (pc = "relocate_timer_stopped" /\ store' # store) => ~timerActive
        /\ (~timerActive /\ timerActive') =>
              (lastOp'.op = "relocated" /\ history_dir' # NoDir /\ pc' = "idle")
        /\ lastOp'.op = "relocate_failed" => (~timerActive' /\ history_dir' = NoDir)
        /\ lastOp'.op \in PollOps => pc \notin RelocatingPcs
      ]_vars

\* A relocation of a history that had a snapshot ended with a failed mkdir:
\* history is disabled and the timer, running before, is stopped.
C8_Witness ==
    /\ lastOp.op = "relocate_failed"
    /\ nextId > 1
    /\ history_dir = NoDir
    /\ ~timerActive

\* C9 (guard released).  Whenever load_state has returned, whatever the
\* outcome, _is_loading_state is false; the flag is set only while the
\* message box of a failed load is open.
LoadReturnOps == {"back_loaded", "forward_loaded", "back_invalid_index",
                  "forward_invalid_index", "load_failed_pruned",
                  "load_failed_unhandled"}

C9_GuardReleased ==
    /\ lastOp.op \in LoadReturnOps => ~is_loading
    /\ is_loading => pc = "load_dialog"

\* A load failed with an exception other than FileNotFoundError and
\* JSONDecodeError and load_state returned.
C9_Witness ==
    /\ lastOp.op = "load_failed_unhandled"
    /\ ~is_loading
    /\ pc = "idle"

\* C10 (capture under the guard).  create_new_state called while
\* _is_loading_state is set returns at its first statement: the list,
\* history_index, the store and the id counter are unchanged.
C10_CaptureGuarded ==
    [][ (is_loading /\ lastOp'.op \in CaptureOps) =>
          /\ lastOp'.op = "capture_guarded"
          /\ UNCHANGED << history, history_index, store, nextId, staleDisplay >>
      ]_vars

\* create_new_state was called while the message box of a failed load was
\* open.
C10_Witness ==
    /\ lastOp.op = "capture_guarded"
    /\ is_loading
    /\ pc = "load_dialog"
    /\ history # << >>

LoadedOps == {"back_loaded", "forward_loaded"}

\* C11 (snapshot immutability).  No step of the program changes the text or
\* the readability of a snapshot file that exists; and the state a go_back
\* or go_forward returns equals in every field the state dict that was
\* captured at the position it moves to, whatever was captured, discarded
\* or visited in between.
C11_SnapshotImmutable ==
    [][ /\ lastOp'.op # "environment" =>
             \A f \in store : \A g \in store' :
                 (g.dir = f.dir /\ g.id = f.id) => g = f
        /\ lastOp'.op \in LoadedOps =>
             LET captured == history[history_index' + 1]
                 loaded == lastOp'.ret[1]
             IN  /\ Len(lastOp'.ret) = 1
                 /\ loaded.id = captured.id
                 /\ loaded.timestamp = captured.timestamp
                 /\ loaded.files = captured.files
                 /\ loaded.selected_items = captured.selected_items
                 /\ loaded.selection_mode = captured.selection_mode
                 /\ loaded.selected_file = captured.selected_file
                 /\ loaded.file_hashes = captured.file_hashes
                 /\ history' = history
      ]_vars

\* Three snapshots were captured and go_back, twice, returned the first.
C11_Witness ==
    /\ lastOp.op = "back_loaded"
    /\ Len(history) = 3
    /\ history_index = 0
    /\ lastOp.ret[1].id = 1
    /\ Cardinality(store) = 3

\* C12 (round trip).  The snapshot file of every state in the list that
\* create_new_state wrote, read back with json.load, gives a record equal
\* to the state in all seven fields; a state that was just saved has such a
\* file.
C12_RoundTrip ==
    /\ \A i \in 1..Len(history) :
         \A f \in FilesOf(store, history_dir, history[i].id) :
            f.mode = "ok" => json_load(f.data) = history[i]
    /\ lastOp.op = "capture_saved" =>
         \E f \in FilesOf(store, history_dir, history[Len(history)].id) :
            f.mode = "ok" /\ json_load(f.data) = history[Len(history)]

\* A state with no selected file, no selected items and no hashed file (its
\* only file is not text) was saved, and one with a missing-file sentinel.
C12_Witness ==
    /\ lastOp.op = "capture_saved"
    /\ Len(history) = 2
    /\ history[1].selected_file = NoFile
    /\ history[1].selected_items = << >>
    /\ DOMAIN history[1].file_hashes = {}
    /\ history[2].selected_file = "f1"
    /\ history[2].file_hashes = [p \in {"f1"} |-> HASH_MISSING_SENTINEL]

Sentinels == {HASH_MISSING_SENTINEL, HASH_ERROR_SENTINEL}

\* C13 as stated (omission of equal hashes).  A poll that checks the current
\* snapshot has no entry for a path whose current hash equals its stored
\* hash, whichever of a digest, FILE_MISSING and HASH_ERROR the two are, and
\* every entry is "modified", "missing" or "error".
C13_OmitsEqualHashes ==
    [][ lastOp'.op = "poll_checked" =>
          LET stored_hashes == history[history_index + 1].file_hashes
          IN  /\ \A p \in DOMAIN stored_hashes :
                   calculate_file_hash(disk', p) = stored_hashes[p]
                      => p \notin DOMAIN staleDisplay'
              /\ \A p \in DOMAIN staleDisplay' :
                   staleDisplay'[p] \in {"modified", "missing", "error"}
      ]_vars

\* C13 (omission of equal digests).  A poll that checks the current
\* snapshot has no entry for a path whose current hash is a digest equal to
\* its stored hash; a path that is hashed and whose current hash is
\* FILE_MISSING or HASH_ERROR has the entry "missing" or "error" whatever
\* its stored hash is; an entry exists only for a stored path that was
\* hashed, and it is the path's classification.
C13_OmitsEqualDigests ==
    [][ lastOp'.op = "poll_checked" =>
          LET stored_hashes == history[history_index + 1].file_hashes
          IN  /\ DOMAIN staleDisplay' \subseteq DOMAIN stored_hashes
              /\ \A p \in DOMAIN stored_hashes :
                   LET current_hash == calculate_file_hash(disk', p)
                   IN  /\ (current_hash = stored_hashes[p] /\ current_hash \notin Sentinels)
                            => p \notin DOMAIN staleDisplay'
                       /\ (is_text_file(disk, p) /\ current_hash \in Sentinels)
                            => p \in DOMAIN staleDisplay'
                       /\ p \in DOMAIN staleDisplay' =>
                            /\ is_text_file(disk, p)
                            /\ current_hash \in Sentinels \/ current_hash # stored_hashes[p]
                            /\ staleDisplay'[p] =
                                 CASE current_hash = HASH_MISSING_SENTINEL -> "missing"
                                   [] current_hash = HASH_ERROR_SENTINEL -> "error"
                                   [] OTHER -> "modified"
      ]_vars

\* The current snapshot stores FILE_MISSING for f1 (f1 was deleted between
\* its classification and its hashing) and a digest for f2; a poll during
\* which f1 was deleted again reported f1 as missing and omitted f2.
C13_Witness ==
    /\ lastOp.op = "poll_checked"
    /\ history_index >= 0
    /\ LET stored_hashes == history[history_index + 1].file_hashes
       IN  /\ DOMAIN stored_hashes = {"f1", "f2"}
           /\ stored_hashes["f1"] = HASH_MISSING_SENTINEL
           /\ stored_hashes["f2"] = calculate_file_hash(disk, "f2")
    /\ disk["f1"] = "absent"
    /\ DOMAIN staleDisplay = {"f1"}
    /\ staleDisplay["f1"] = "missing"

\* C14 (history disabled).  A mkdir that fails leaves history_dir empty;
\* while history_dir is empty the list is empty, history_index is -1, the
\* timer is not running, a poll would hand the empty map to the display,
\* every create_new_state returns at its first statement, go_back and
\* go_forward do nothing, and the timer is only started by a step that set
\* a history directory.
C14_HistoryDisabled ==
    [][ /\ lastOp'.op = "relocate_mkdir_failed" => history_dir' = NoDir
        /\ history_dir = NoDir =>
             /\ history = << >>
             /\ history_index = -1
             /\ ~timerActive
             /\ stale_status_polled(disk) = EmptyMap
             /\ lastOp'.op \notin PollOps
             /\ lastOp'.op \in CaptureOps =>
                  /\ lastOp'.op = "capture_guarded"
                  /\ UNCHANGED << history, history_index, store, nextId, timerActive >>
             /\ lastOp'.op \in BackOps \cup ForwardOps =>
                  /\ lastOp'.op \in {"back_noop", "forward_noop"}
                  /\ UNCHANGED << history, history_index, store, timerActive >>
             /\ timerActive' => history_dir' # NoDir
      ]_vars

\* A history that had a snapshot was relocated, mkdir failed, the message
\* box was closed and a create_new_state that followed did nothing.
C14_Witness ==
    /\ lastOp.op = "capture_guarded"
    /\ history_dir = NoDir
    /\ ~is_loading
    /\ pc = "idle"
    /\ nextId = 2
    /\ history = << >>
    /\ ~timerActive

\* C15 (poll against the current snapshot).  The map a poll hands to the
\* display is check_stale_status of the state at history_index, compared
\* with the disk as it is; it is the empty map when history_dir is empty,
\* the list is empty or history_index is negative.
C15_PollAgainstCurrent ==
    [][ /\ lastOp'.op \in PollOps =>
             IF history_dir = NoDir \/ history = << >> \/ history_index < 0
             THEN staleDisplay' = EmptyMap
             ELSE ~is_loading =>
                    /\ staleDisplay' = check_stale_status(history[history_index + 1], disk)
                    /\ \A p \in DOMAIN staleDisplay' :
                         /\ p \in DOMAIN history[history_index + 1].file_hashes
                         /\ calculate_file_hash(disk, p)
                               # history[history_index + 1].file_hashes[p]
        /\ (history_dir = NoDir \/ history = << >> \/ history_index < 0)
              => stale_status_polled(disk) = EmptyMap
      ]_vars

\* f1 was edited between two captures and go_back returned to the first: a
\* poll reports f1 as modified, which a check of the last snapshot would not.
C15_Witness ==
    /\ lastOp.op = "poll_checked"
    /\ Len(history) = 2
    /\ history_index = 0
    /\ staleDisplay = [p \in {"f1"} |-> "modified"]
    /\ check_stale_status(history[2], disk) = EmptyMap

HexDigests == { Digest(c) : c \in {"v1", "v2", "bin"} }
Readable(c) == c \in {"v1", "v2", "bin"}

\* C16 (the hasher never raises).  calculate_file_hash gives the digest of a
\* readable file, FILE_MISSING for an absent one and HASH_ERROR for one that
\* cannot be read, and nothing else.  So a state that is saved records the
\* digest of every file that was text and stayed readable, and a poll that
\* checks the current snapshot classifies every stored path that is text and
\* stays readable, whatever the other files of the working set hold.
C16_HasherTotal ==
    [][ /\ \A p \in Paths :
             /\ calculate_file_hash(disk, p) \in HexDigests \cup Sentinels
             /\ Readable(disk[p]) <=> calculate_file_hash(disk, p) \in HexDigests
             /\ disk[p] = "absent" <=> calculate_file_hash(disk, p) = HASH_MISSING_SENTINEL
             /\ disk[p] = "noperm" <=> calculate_file_hash(disk, p) = HASH_ERROR_SENTINEL
        /\ lastOp'.op = "capture_saved" =>
             LET state == history'[Len(history')]
             IN  /\ \A p \in DOMAIN state.file_hashes :
                      state.file_hashes[p] \in HexDigests \cup Sentinels
                 /\ \A p \in Range(state.files) :
                      (is_text_file(disk, p) /\ Readable(disk'[p])) =>
                          /\ p \in DOMAIN state.file_hashes
                          /\ state.file_hashes[p] = Digest(disk'[p])
        /\ lastOp'.op = "poll_checked" =>
             LET stored_hashes == history[history_index + 1].file_hashes
             IN  \A p \in DOMAIN stored_hashes :
                   (is_text_file(disk, p) /\ Readable(disk'[p])) =>
                       IF Digest(disk'[p]) = stored_hashes[p]
                       THEN p \notin DOMAIN staleDisplay'
                       ELSE /\ p \in DOMAIN staleDisplay'
                            /\ staleDisplay'[p] = "modified"
      ]_vars

\* A state of f1 and f2 was saved while f1 could not be read: its hash is
\* HASH_ERROR and the digest of f2 is recorded; then a poll during which f1
\* was deleted reported f1 as missing and found f2 unchanged.
C16_Witness ==
    /\ lastOp.op = "poll_checked"
    /\ Len(history) = 1
    /\ history[1].files = << "f1", "f2" >>
    /\ history[1].file_hashes =
          [p \in {"f1", "f2"} |-> IF p = "f1" THEN HASH_ERROR_SENTINEL ELSE Digest("v1")]
    /\ disk = [p \in Paths |-> IF p = "f1" THEN "absent" ELSE "v1"]
    /\ staleDisplay = [p \in {"f1"} |-> "missing"]

\* C20 (only text files are hashed).  In a state that is saved, and in its
\* snapshot file, the keys of file_hashes are exactly the members of files
\* that is_text_file held for when create_new_state ran; a member of files
\* that was not text is in files and not in file_hashes.  In every state of
\* the list the keys of file_hashes are members of files.
C20_HashedFilesAreTextFiles ==
    [][ /\ lastOp'.op = "capture_saved" =>
             LET state == history'[Len(history')]
             IN  /\ DOMAIN state.file_hashes =
                       { p \in Range(state.files) : is_text_file(disk, p) }
                 /\ \A p \in Range(state.files) :
                       ~is_text_file(disk, p) => p \notin DOMAIN state.file_hashes
                 /\ \A f \in FilesOf(store', history_dir, state.id) :
                       DOMAIN json_load(f.data).file_hashes =
                          { p \in Range(state.files) : is_text_file(disk, p) }
        /\ \A i \in 1..Len(history) :
             DOMAIN history[i].file_hashes \subseteq Range(history[i].files)
      ]_vars

\* A state of the text file f1 and the binary file f2 was saved: both are
\* in files, only f1 is in file_hashes.
C20_Witness ==
    /\ lastOp.op = "capture_saved"
    /\ history[Len(history)].files = << "f1", "f2" >>
    /\ disk["f2"] = "bin"
    /\ DOMAIN history[Len(history)].file_hashes = {"f1"}

\* C18 (references were written).  A reference that a step adds to the list
\* is added by a create_new_state that saved it, at the end of the list, and
\* its snapshot file, which did not exist before the step, is in history_dir
\* and holds the text of the state; a create_new_state whose write failed
\* leaves the list and history_index as they were.
C18_ReferencesWereWritten ==
    [][ /\ \A i \in 1..Len(history') :
             history'[i].id \notin Ids(history) =>
                /\ lastOp'.op = "capture_saved"
                /\ i = Len(history')
                /\ history_dir # NoDir
                /\ FilesOf(store, history_dir, history'[i].id) = {}
                /\ \E f \in FilesOf(store', history_dir, history'[i].id) :
                      f.mode = "ok" /\ f.data = json_dump(history'[i])
        /\ lastOp'.op = "capture_write_failed" =>
                UNCHANGED << history, history_index >>
      ]_vars

\* The third create_new_state failed inside json.dump: its file is there,
\* cut short, and the list holds the two states saved before.
C18_Witness ==
    /\ lastOp.op = "capture_write_failed"
    /\ Len(history) = 2
    /\ Ids(history) = {1, 2}
    /\ \E f \in FilesOf(store, history_dir, 3) : f.mode = "corrupt"

\* C19 (best-effort removal).  A create_new_state in which os.remove of the
\* snapshot file of a discarded reference raises still saves: the files that
\* could not be removed stay, their references are dropped from the list
\* with the other references after history_index, the references up to
\* history_index are kept, the new reference is appended with its file
\* written, and history_index is the last position.
C19_DiscardBestEffort ==
    [][ (lastOp'.op \in CaptureOps /\ lastOp'.ids # {}) =>
          /\ lastOp'.op = "capture_saved"
          /\ history_index < Len(history) - 1
          /\ lastOp'.ids \subseteq
                { history[i].id : i \in (history_index + 2)..Len(history) }
          /\ \A id \in lastOp'.ids :
                /\ id \notin Ids(history')
                /\ FilesOf(store', history_dir, id) # {}
                /\ FilesOf(store', history_dir, id) = FilesOf(store, history_dir, id)
          /\ Len(history') = history_index + 2
          /\ \A i \in 1..(history_index + 1) : history'[i] = history[i]
          /\ history'[Len(history')].id \notin Ids(history)
          /\ \E f \in FilesOf(store', history_dir, history'[Len(history')].id) :
                f.mode = "ok"
          /\ history_index' = Len(history') - 1
      ]_vars

\* After two captures and a go_back, a third capture could not remove the
\* file of snapshot 2: the list is snapshots 1 and 3, the file of 2 remains.
C19_Witness ==
    /\ lastOp.op = "capture_saved"
    /\ lastOp.ids = {2}
    /\ Len(history) = 2
    /\ history[1].id = 1 /\ history[2].id = 3
    /\ history_index = 1
    /\ FilesOf(store, history_dir, 2) # {}
    /\ FilesOf(store, history_dir, 3) # {}

PurgeOps == {"relocate_purge", "shutdown_cleanup"}

\* C17 (frame of the purge).  A purge, by change_history_directory or at
\* exit, removes no file outside the directory it purges and, in it, only
\* files named state_*.json: every other file stays.  A history directory
\* is removed only by the purge at exit, only if it is history_dir and ends
\* with FileKittyHistory, and only if no file is left in it; the purge of
\* change_history_directory removes no directory.
C17_PurgeFrame ==
    [][ /\ lastOp'.op \in PurgeOps =>
             /\ others' \subseteq others
             /\ store' \subseteq store
             /\ \A o \in others :
                   (o.name[1] # "state_" \/ o.name[3] # ".json") => o \in others'
             /\ \A o \in others \ others' : o.dir = history_dir
             /\ \A f \in store \ store' : f.dir = history_dir
        /\ lastOp'.op \notin PurgeOps \cup {"environment"} =>
             \A o \in others : o \in others'
        /\ lastOp'.op = "relocate_purge" => removed' = removed
        /\ removed' # removed =>
             /\ lastOp'.op = "shutdown_cleanup"
             /\ removed' = removed \cup {history_dir}
             /\ history_dir # NoDir
             /\ history_dir[Len(history_dir)] = HISTORY_DIR_NAME
             /\ \A f \in store' : f.dir # history_dir
             /\ \A o \in others' : o.dir # history_dir
      ]_vars

\* The purge at exit removed the snapshot of the session and a file named
\* state_old.json, kept state_notes.txt, and so did not remove the directory.
C17_Witness ==
    /\ lastOp.op = "shutdown_cleanup"
    /\ nextId = 2
    /\ store = {}
    /\ history_dir = HistoryPath(TempBase)
    /\ others = {[dir |-> history_dir, name |-> << "state_", "notes", ".txt" >>]}
    /\ removed = {}
    /\ faults = 0


\* The label staleIndicatorLabel as the last call of
\* _update_stale_status_display left it (staleDisplay is its argument)
staleIndicatorLabel == _update_stale_status_display(staleDisplay)

StatusesShown == { staleDisplay[p] : p \in DOMAIN staleDisplay }

Severity(status) ==
    CASE status = "missing" -> 3
      [] status = "error" -> 2
      [] status = "modified" -> 1
      [] OTHER -> 0

SummaryOf(status) ==
    CASE status = "missing" -> "Files Missing!"
      [] status = "error" -> "File Errors!"
      [] status = "modified" -> "Files Modified"
      [] OTHER -> "Files Changed (?)"

\* C21: the summary shown for a non-empty staleness map is that of the most
\* severe status present, missing before error before modified; for an
\* empty map the indicator is hidden and has no text.
C21_MostSevereShown ==
    IF StatusesShown = {}
    THEN ~staleIndicatorLabel.visible /\ staleIndicatorLabel.text = ""
    ELSE /\ staleIndicatorLabel.visible
         /\ \E s \in StatusesShown :
              /\ \A t \in StatusesShown : Severity(s) >= Severity(t)
              /\ staleIndicatorLabel.text = WARNING_SIGN \o " " \o SummaryOf(s)

C21_Witness ==
    /\ lastOp.op = "poll_checked"
    /\ {"missing", "error"} \subseteq StatusesShown
    /\ staleIndicatorLabel.text = WARNING_SIGN \o " " \o "Files Missing!"


\* The fields the round trip is compared on, settings apart
SameButSettings(s, r) ==
    /\ r.id = s.id
    /\ r.timestamp = s.timestamp
    /\ r.files = s.files
    /\ Len(r.file_metadata) = Len(s.file_metadata)
    /\ \A i \in 1..Len(s.file_metadata) :
         /\ r.file_metadata[i].path = s.file_metadata[i].path
         /\ r.file_metadata[i].language = s.file_metadata[i].language
    /\ r.selection_state.mode = s.selection_state.mode
    /\ r.selection_state.selected_items = s.selection_state.selected_items
    /\ r.project_root = s.project_root
    /\ (r.tree_snapshot = None) = (s.tree_snapshot = None)
    /\ s.tree_snapshot # None => r.tree_snapshot[1].base_path = s.tree_snapshot[1].base_path
    /\ r.output_text = s.output_text

\* C22 as stated: for every PromptSession s, from_json(to_json(s)) has the
\* same id, timestamp, files, file_metadata paths and languages, selection
\* mode and selected_items, project_root, tree_snapshot base_path,
\* output_text and settings as s.
C22_RoundTripEverySession ==
    lastOp.op = "from_json" =>
        /\ SameButSettings(session[1], lastOp.ret[1])
        /\ lastOp.ret[1].settings = session[1].settings

\* C22 (amended): the round trip keeps all the listed fields other than
\* settings for every session, and keeps settings when it holds no tuple;
\* a tuple in settings comes back as the list of the same elements.
C22_RoundTripJsonSettings ==
    lastOp.op = "from_json" =>
        LET s == session[1]
            r == lastOp.ret[1]
        IN  /\ SameButSettings(s, r)
            /\ DOMAIN r.settings = DOMAIN s.settings
            /\ \A k \in DOMAIN s.settings :
                 IF s.settings[k][1] = "tuple"
                 THEN r.settings[k] = PyList(s.settings[k][2])
                 ELSE r.settings[k] = s.settings[k]
            /\ s.settings \in JsonSettings => r.settings = s.settings

C22_Witness ==
    /\ lastOp.op = "from_json"
    /\ session[1].project_root = Some("")
    /\ session[1].timestamp.microsecond = 0
    /\ Len(session[1].file_metadata) = 2
    /\ DOMAIN session[1].settings = {"include_tree", "auto_copy"}
    /\ lastOp.ret[1].settings = session[1].settings
    /\ lastOp.ret[1].project_root = Some("")


FailedLoadOps == {"load_failed_pruned", "load_failed_unhandled"}

\* C23 (failed navigation keeps the position).  When a go_back or go_forward
\* fails on its target, the entry at history_index afterwards is the
\* snapshot that was current before the call, whatever the position the
\* call started from.
C23_FailedNavigationKeepsCurrent ==
    [][ (pc = "load_dialog" /\ lastOp'.op \in FailedLoadOps)
          => /\ 0 <= history_index'
             /\ history_index' < Len(history')
             /\ history'[history_index' + 1].id = history[history_index + 1].id
      ]_vars

\* C24 (failed write).  A capture whose write of the new snapshot fails is
\* reported and leaves the history list, history_index and the snapshot
\* files of all references as they were: no branch is discarded and no
\* reference is appended.
C24_FailedWriteChangesNothing ==
    [][ lastOp'.op = "capture_write_failed"
          => /\ UNCHANGED << history, history_index >>
             /\ \A i \in 1..Len(history) :
                  FilesOf(store', history_dir, history[i].id)
                    = FilesOf(store, history_dir, history[i].id)
      ]_vars

\* A write failed part-way while a reference lay after history_index: it
\* is still in the list and has its file.
C24_Witness ==
    /\ lastOp.op = "capture_write_failed"
    /\ Len(history) = 2
    /\ history_index = 0
    /\ \E f \in FilesOf(store, history_dir, history[2].id) : f.mode = "ok"
    /\ \E f \in store : f.mode = "corrupt" /\ f.id \notin Ids(history)

NavigationPositions == {"load_dialog", "applying", "apply_error_dialog"}

\* C25 (guard held for the whole navigation).  From the start of reading
\* the target snapshot until the loaded state has been applied, the
\* loading flag is set.
C25_GuardHeldUntilApplied ==
    pc \in NavigationPositions => is_loading

\* C26 (poll under the guard).  A timer poll that fires while the loading
\* flag is set computes no staleness, leaves the history list and
\* history_index (and every other field of the history manager and the
\* files) as they are, and clears the stale indicator.
C26_PollUnderGuard ==
    [][ (is_loading /\ lastOp'.op \in PollOps)
          => /\ lastOp'.op = "poll_skipped"
             /\ UNCHANGED << hmVars, store, disk >>
             /\ staleDisplay' = EmptyMap
             /\ ~_update_stale_status_display(staleDisplay').visible
      ]_vars

\* A poll ran while the dialog of load_state was open; the tracked file of
\* the current state had been edited, so a computation would have reported
\* it.
C26_Witness ==
    /\ lastOp.op = "poll_skipped"
    /\ is_loading
    /\ pc = "load_dialog"
    /\ get_current_state_data # << >>
    /\ check_stale_status(get_current_state_data[1], disk) # EmptyMap
    /\ staleDisplay = EmptyMap

FutureIds(h, index) == { h[i].id : i \in (index + 2)..Len(h) }

\* C27 (frame of capture).  A capture deletes the snapshot files of the
\* references after history_index (all of them, but for those whose
\* os.remove failed) and no other file; the files of the references up to
\* history_index are neither deleted nor changed; and a step of the
\* program deletes a snapshot file only if it is a capture that discards a
\* branch or a purge.
C27_CaptureDeletesOnlyFuture ==
    [][ /\ lastOp'.op \in CaptureOps
          => /\ \A f \in store :
                  FilesOf(store', f.dir, f.id) = {}
                    => /\ f.dir = history_dir
                       /\ f.id \in FutureIds(history, history_index)
                       /\ lastOp'.op = "capture_saved"
             /\ lastOp'.op = "capture_saved"
                  => \A id \in FutureIds(history, history_index) \ lastOp'.ids :
                       FilesOf(store', history_dir, id) = {}
             /\ \A i \in 1..Min(history_index + 1, Len(history)) :
                  FilesOf(store', history_dir, history[i].id)
                    = FilesOf(store, history_dir, history[i].id)
        /\ ( /\ lastOp'.op # "environment"
             /\ \E f \in store : FilesOf(store', f.dir, f.id) = {} )
          => lastOp'.op \in {"capture_saved"} \cup PurgeOps
      ]_vars

\* Snapshots 1 and 2 were captured, snapshot 1 was loaded again and a third
\* capture discarded snapshot 2: the files of 1 and 3 exist, that of 2 does
\* not.
C27_Witness ==
    /\ lastOp.op = "capture_saved"
    /\ Ids(history) = {1, 3}
    /\ { f.id : f \in StateFilesIn(store, history_dir) } = {1, 3}
    /\ \A f \in store : f.mode = "ok"

\* C28 (duplicate skip at a non-tail position).  A capture skipped as a
\* duplicate while history_index is not the tail discards nothing: list,
\* index and files are as before, and a go_forward that follows reaches
\* the next reference.
C28_DuplicateSkipKeepsBranch ==
    [][ /\ (lastOp'.op = "capture_duplicate" /\ history_index < Len(history) - 1)
          => UNCHANGED << history, history_index, store >>
        /\ ( /\ lastOp.op = "capture_duplicate"
             /\ history_index < Len(history) - 1
             /\ lastOp'.op \in ForwardOps )
          => /\ lastOp'.op \in {"forward_loaded", "forward_load_error"}
             /\ ReadOutcome(history_index + 1) = "ok"
                  => /\ lastOp'.op = "forward_loaded"
                     /\ history_index' = history_index + 1
                     /\ lastOp'.ret[1].id = history[history_index + 2].id
      ]_vars

\* A capture was skipped as a duplicate of the current state, which has a
\* reference after it whose file exists.
C28_Witness ==
    /\ lastOp.op = "capture_duplicate"
    /\ history_index < Len(history) - 1
    /\ ReadOutcome(history_index + 1) = "ok"

\* C29 (no orphan snapshots).  As long as the history stays in the
\* directory it started in, every snapshot file of that directory is
\* referenced by an entry of the history list.
C29_NoOrphanSnapshots ==
    (history_dir = HistoryPath(TempBase) /\ history_base_path = "" /\ (Idle \/ InDialog))
      => \A f \in StateFilesIn(store, history_dir) : f.id \in Ids(history)

\* C30 (other load errors).  When load_state fails with an error that is
\* neither file-not-found nor a parse error, the caller gets no state, the
\* flag is released and the reference that could not be loaded is no
\* longer in the list for history_index to reach.
C30_OtherErrorPruned ==
    [][ ( /\ pc = "load_dialog"
          /\ ctx.err \notin {"not_found", "decode_error"}
          /\ lastOp'.op \in FailedLoadOps )
          => /\ lastOp'.ret = << >>
             /\ ~is_loading'
             /\ history[ctx.idx + 1].id \notin Ids(history')
      ]_vars
====
